---- MODULE Spec2Model ----
(***************************************************************************)
(* Model of src/main.py: the generate action (run_with_spinner polling a   *)
(* fal.ai job, display of the result, save_image_and_markdown), the        *)
(* filename sanitisation, and the parsing of the tuned-prompt response.    *)
(***************************************************************************)
EXTENDS Integers, Sequences, FiniteSets, TLC

VARIABLES
    falKey,         \* os.getenv("FAL_KEY") is non-empty
    promptGiven,    \* user_prompt is non-empty
    pc,             \* position of main() / run_with_spinner / save_image_and_markdown
    now,            \* event-loop clock, seconds since asyncio.run started
    wake,           \* time at which the pending asyncio.sleep(3) expires
    ticks,          \* number of spinner_placeholder.text(next(message_cycle)) calls
    spinner,        \* text in spinner_placeholder: 0 = nothing, 1..10 = message
    jpc,            \* position of the task running generate_image_with_fal
    jobResult,      \* result of the task, NoValue if none
    jobError,       \* exception of the task, NoValue if none
    settledAt,      \* clock value at which the task settled, -1 before
    ret,            \* value returned by run_with_spinner to main
    raised,         \* exception propagated by asyncio.run to main
    shown,          \* parts of the result displayed in this script run
    messages,       \* st.error / st.success / st.warning boxes of this script run
    outcome,        \* how the generate action ended
    httpStatus,     \* response.status_code of requests.get(url), 0 before
    saveRet,        \* return value of save_image_and_markdown
    saveExc,        \* exception escaping save_image_and_markdown
    console,        \* records printed by print() in this script run
    images_folder,  \* the images/ directory exists
    imageFile,      \* state of images/<filename_base>.png
    mdFile,         \* state of images/<filename_base>.md
    filesBefore,    \* fileVars when save_image_and_markdown was entered
    prompt,         \* prompt handed to the filename sanitisation
    safe_prompt,    \* sanitised prompt
    spc,            \* position of the sanitisation
    response,       \* text returned by tune_prompt_with_openai
    tuned_prompt,   \* st.session_state.tuned_prompt
    explanation,    \* local variable explanation of main()
    suggestions,    \* local variable suggestions of main()
    priorTuned,     \* st.session_state.tuned_prompt before the tune action
    tpc,            \* position of the tune action
    tuneShown,      \* widgets written by the tune action
    tuneError,      \* exception caught by the except clause of the tune action
    user_prompt,    \* st.session_state.user_prompt
    prompt_accepted \* st.session_state.prompt_accepted

genVars == <<falKey, promptGiven, pc, now, wake, ticks, spinner, jpc, jobResult,
             jobError, settledAt, ret, raised, shown, messages, outcome,
             httpStatus, saveRet, saveExc, console, images_folder, imageFile,
             mdFile, filesBefore>>
sanVars == <<prompt, safe_prompt, spc>>
tuneVars == <<response, tuned_prompt, explanation, suggestions, priorTuned, tpc,
              tuneShown, tuneError, user_prompt, prompt_accepted>>
vars == <<genVars, sanVars, tuneVars>>

NoValue == "None"

(***************************************************************************)
(* Bounds of the model.                                                    *)
(***************************************************************************)
MaxD == 7          \* latest clock value at which the job may still be running
MaxSuffix == 3     \* length of the varying tail of a prompt
MaxResp == 5       \* length of a chat response, in tokens

(***************************************************************************)
(* Program constants.                                                      *)
(***************************************************************************)
SleepSeconds == 3  \* await asyncio.sleep(3)
NumMessages == 10  \* len(messages) in cycle_spinner_messages
HttpOk == 200      \* response.status_code == 200
TruncLen == 50     \* safe_prompt[:50]

HttpStatuses == {200, 404, 500}

\* The results the remote service may deliver: one image, or no image.
FullResult == [images |-> <<"url">>, seed |-> 42, has_nsfw_concepts |-> FALSE]
EmptyResult == [images |-> <<>>, seed |-> 42, has_nsfw_concepts |-> FALSE]
Results == {FullResult, EmptyResult}

JobErrors == {"SubmitError", "GetError"}

(***************************************************************************)
(* run_with_spinner and the task it polls.                                 *)
(***************************************************************************)
\* a loop condition that only notices a successful task
TaskDoneOnlyOk == jpc = "ok"

\* task.done()
TaskDone == jpc \in {"ok", "failed"}

\* next(message_cycle): the message shown by the n-th tick, n counted from 0
NextMessage(n) == (n % NumMessages) + 1

\* a delay shorter than the tick interval
SleepDelayShort == SleepSeconds - 2

\* the delay handed to asyncio.sleep
SleepDelay == SleepSeconds

\* a task that starts running inside create_task, before the first tick
JobMayRunEager == pc \in {"while", "sleep"}

\* the task may run only while the runner is suspended in asyncio.sleep
JobMayRun == pc = "sleep"

\* main(): FAL_KEY check (lines 152-154)
MainConfigError ==
    /\ pc = "main"
    /\ ~falKey
    /\ pc' = "done"
    /\ messages' = messages \cup {"fal_key_not_set"}
    /\ outcome' = "config_error"
    /\ UNCHANGED <<falKey, promptGiven, now, wake, ticks, spinner, jpc, jobResult,
                   jobError, settledAt, ret, raised, shown, httpStatus, saveRet,
                   saveExc, console, images_folder, imageFile, mdFile, filesBefore>>
    /\ UNCHANGED <<sanVars, tuneVars>>

\* main(): Generate Image pressed with an empty prompt (lines 240-243)
MainEmptyPrompt ==
    /\ pc = "main"
    /\ falKey
    /\ ~promptGiven
    /\ pc' = "done"
    /\ messages' = messages \cup {"enter_a_prompt"}
    /\ outcome' = "no_prompt"
    /\ UNCHANGED <<falKey, promptGiven, now, wake, ticks, spinner, jpc, jobResult,
                   jobError, settledAt, ret, raised, shown, httpStatus, saveRet,
                   saveExc, console, images_folder, imageFile, mdFile, filesBefore>>
    /\ UNCHANGED <<sanVars, tuneVars>>

\* main(): Generate Image pressed, asyncio.run(run_with_spinner(...)) entered
\* and task = asyncio.create_task(generation_coroutine) executed
CreateTask ==
    /\ pc = "main"
    /\ falKey
    /\ promptGiven
    /\ pc' = "while"
    /\ jpc' = "scheduled"
    /\ UNCHANGED <<falKey, promptGiven, now, wake, ticks, spinner, jobResult,
                   jobError, settledAt, ret, raised, shown, messages, outcome,
                   httpStatus, saveRet, saveExc, console, images_folder,
                   imageFile, mdFile, filesBefore>>
    /\ UNCHANGED <<sanVars, tuneVars>>

\* while not task.done(): spinner_placeholder.text(next(message_cycle));
\* await asyncio.sleep(3)   -- up to the suspension
LoopTick ==
    /\ pc = "while"
    /\ ~TaskDone
    /\ ticks' = ticks + 1
    /\ spinner' = NextMessage(ticks)
    /\ wake' = now + SleepDelay
    /\ pc' = "sleep"
    /\ UNCHANGED <<falKey, promptGiven, now, jpc, jobResult, jobError, settledAt,
                   ret, raised, shown, messages, outcome, httpStatus, saveRet,
                   saveExc, console, images_folder, imageFile, mdFile, filesBefore>>
    /\ UNCHANGED <<sanVars, tuneVars>>

\* while not task.done() is false: fall through to return await task
LoopExit ==
    /\ pc = "while"
    /\ TaskDone
    /\ pc' = "await"
    /\ UNCHANGED <<falKey, promptGiven, now, wake, ticks, spinner, jpc, jobResult,
                   jobError, settledAt, ret, raised, shown, messages, outcome,
                   httpStatus, saveRet, saveExc, console, images_folder,
                   imageFile, mdFile, filesBefore>>
    /\ UNCHANGED <<sanVars, tuneVars>>

\* the event loop's clock advances while the runner sleeps; a task that is
\* ready to start runs before the loop waits for a timer
Advance ==
    /\ pc = "sleep"
    /\ now < wake
    /\ jpc # "scheduled"
    /\ TaskDone \/ now < MaxD
    /\ now' = now + 1
    /\ UNCHANGED <<falKey, promptGiven, pc, wake, ticks, spinner, jpc, jobResult,
                   jobError, settledAt, ret, raised, shown, messages, outcome,
                   httpStatus, saveRet, saveExc, console, images_folder,
                   imageFile, mdFile, filesBefore>>
    /\ UNCHANGED <<sanVars, tuneVars>>

\* asyncio.sleep(3) expires and the runner resumes at the loop condition
SleepWake ==
    /\ pc = "sleep"
    /\ now = wake
    /\ pc' = "while"
    /\ UNCHANGED <<falKey, promptGiven, now, wake, ticks, spinner, jpc, jobResult,
                   jobError, settledAt, ret, raised, shown, messages, outcome,
                   httpStatus, saveRet, saveExc, console, images_folder,
                   imageFile, mdFile, filesBefore>>
    /\ UNCHANGED <<sanVars, tuneVars>>

\* generate_image_with_fal up to await fal_client.submit_async (lines 33-39)
JobStart ==
    /\ JobMayRun
    /\ jpc = "scheduled"
    /\ IF falKey
          THEN /\ jpc' = "submit"
               /\ UNCHANGED <<jobError, settledAt>>
          ELSE /\ jpc' = "failed"
               /\ jobError' = "ValueError"
               /\ settledAt' = now
    /\ UNCHANGED <<falKey, promptGiven, pc, now, wake, ticks, spinner, jobResult,
                   ret, raised, shown, messages, outcome, httpStatus, saveRet,
                   saveExc, console, images_folder, imageFile, mdFile, filesBefore>>
    /\ UNCHANGED <<sanVars, tuneVars>>

\* fal_client.submit_async returns a handler (line 39)
JobSubmitted ==
    /\ JobMayRun
    /\ jpc = "submit"
    /\ jpc' = "get"
    /\ UNCHANGED <<falKey, promptGiven, pc, now, wake, ticks, spinner, jobResult,
                   jobError, settledAt, ret, raised, shown, messages, outcome,
                   httpStatus, saveRet, saveExc, console, images_folder,
                   imageFile, mdFile, filesBefore>>
    /\ UNCHANGED <<sanVars, tuneVars>>

\* fal_client.submit_async or handler.get() raises (lines 39, 52)
JobFails ==
    /\ JobMayRun
    /\ jpc \in {"submit", "get"}
    /\ jobError' = (IF jpc = "submit" THEN "SubmitError" ELSE "GetError")
    /\ jpc' = "failed"
    /\ settledAt' = now
    /\ UNCHANGED <<falKey, promptGiven, pc, now, wake, ticks, spinner, jobResult,
                   ret, raised, shown, messages, outcome, httpStatus, saveRet,
                   saveExc, console, images_folder, imageFile, mdFile, filesBefore>>
    /\ UNCHANGED <<sanVars, tuneVars>>

\* result = await handler.get(); return result (lines 52-53)
JobReturns ==
    /\ JobMayRun
    /\ jpc = "get"
    /\ \E r \in Results : jobResult' = r
    /\ jpc' = "ok"
    /\ settledAt' = now
    /\ UNCHANGED <<falKey, promptGiven, pc, now, wake, ticks, spinner, jobError,
                   ret, raised, shown, messages, outcome, httpStatus, saveRet,
                   saveExc, console, images_folder, imageFile, mdFile, filesBefore>>
    /\ UNCHANGED <<sanVars, tuneVars>>

\* a runner that wraps the task's exception in one of its own
AwaitOutcomeWrapped ==
    IF jpc = "ok" THEN <<jobResult, NoValue>> ELSE <<NoValue, "RuntimeError">>

\* what return await task hands to the caller: <<value, exception>>
AwaitOutcome ==
    IF jpc = "ok" THEN <<jobResult, NoValue>> ELSE <<NoValue, jobError>>

\* return await task (line 265), asyncio.run returns or raises into main
AwaitTask ==
    /\ pc = "await"
    /\ ret' = AwaitOutcome[1]
    /\ raised' = AwaitOutcome[2]
    /\ pc' = (IF AwaitOutcome[2] = NoValue THEN "display" ELSE "except")
    /\ UNCHANGED <<falKey, promptGiven, now, wake, ticks, spinner, jpc, jobResult,
                   jobError, settledAt, shown, messages, outcome, httpStatus,
                   saveRet, saveExc, console, images_folder, imageFile, mdFile,
                   filesBefore>>
    /\ UNCHANGED <<sanVars, tuneVars>>

(***************************************************************************)
(* main(): display of the result and the except clause (lines 270-305).    *)
(***************************************************************************)
runVars == <<falKey, promptGiven, now, wake, ticks, jpc, jobResult, jobError,
             settledAt, ret>>
fileVars == <<images_folder, imageFile, mdFile>>

\* a display that stops after the image
ShownOnDisplayImageOnly == {"image"}

\* st.image, st.write(seed), st.write(has_nsfw_concepts) (lines 275-279)
ShownOnDisplay == {"image", "seed", "nsfw"}

\* the exceptions a failed remote call leaves in the task
RemoteErrors == JobErrors \cup {"ValueError"}

\* spinner_placeholder.empty(), result['images'][0], st.image, st.write
\* (lines 270-279); an empty images list raises IndexError at line 274
MainDisplay ==
    /\ pc = "display"
    /\ spinner' = 0
    /\ IF ret.images = <<>>
          THEN /\ raised' = "IndexError"
               /\ pc' = "except"
               /\ UNCHANGED <<shown, filesBefore>>
          ELSE /\ shown' = shown \cup ShownOnDisplay
               /\ filesBefore' = <<images_folder, imageFile, mdFile>>
               /\ pc' = "save_get"
               /\ UNCHANGED raised
    /\ UNCHANGED <<runVars, fileVars, messages, outcome, httpStatus, saveRet,
                   saveExc, console>>
    /\ UNCHANGED <<sanVars, tuneVars>>

\* except Exception as e: st.error(...); print(...) (lines 303-305)
MainExcept ==
    /\ pc = "except"
    /\ messages' = messages \cup {"error_generating_image"}
    /\ console' = console \cup {<<"Error details", raised>>}
    /\ outcome' = (IF raised \in RemoteErrors THEN "remote_error" ELSE "result_error")
    /\ pc' = "done"
    /\ UNCHANGED <<runVars, fileVars, spinner, raised, shown, httpStatus, saveRet,
                   saveExc, filesBefore>>
    /\ UNCHANGED <<sanVars, tuneVars>>

(***************************************************************************)
(* save_image_and_markdown (lines 103-143).                                *)
(***************************************************************************)
\* a download error that does not mention the status code
DownloadFailedNoCode(status) == <<"Failed to download image", 0>>

\* IOError(f"Failed to download image. Status code: {response.status_code}")
DownloadFailed(status) == <<"Failed to download image", status>>

\* except Exception as e: print(...); return None, None (lines 141-143):
\* no exception leaves the function
SaveExcept(e) ==
    /\ console' = console \cup {e}
    /\ saveRet' = <<NoValue, NoValue>>
    /\ saveExc' = NoValue
    /\ pc' = "saved"

SaveContinue(next) ==
    /\ pc' = next
    /\ UNCHANGED <<console, saveRet, saveExc>>

\* response = requests.get(url); if response.status_code == 200 (lines 105-106, 139-140)
SaveGet ==
    /\ pc = "save_get"
    /\ \E s \in HttpStatuses :
          /\ httpStatus' = s
          /\ IF s = HttpOk
                THEN SaveContinue("save_decode")
                ELSE SaveExcept(DownloadFailed(s))
    /\ UNCHANGED <<runVars, fileVars, spinner, raised, shown, messages, outcome,
                   filesBefore>>
    /\ UNCHANGED <<sanVars, tuneVars>>

\* requests.get(url) raises (line 105)
SaveGetRaises ==
    /\ pc = "save_get"
    /\ SaveExcept(<<"ConnectionError", 0>>)
    /\ UNCHANGED <<runVars, fileVars, spinner, raised, shown, messages, outcome,
                   httpStatus, filesBefore>>
    /\ UNCHANGED <<sanVars, tuneVars>>

\* image = Image.open(BytesIO(response.content)) (line 107)
SaveDecode ==
    /\ pc = "save_decode"
    /\ \/ SaveContinue("save_makedirs")
       \/ SaveExcept(<<"UnidentifiedImageError", 0>>)
    /\ UNCHANGED <<runVars, fileVars, spinner, raised, shown, messages, outcome,
                   httpStatus, filesBefore>>
    /\ UNCHANGED <<sanVars, tuneVars>>

\* os.makedirs(images_folder, exist_ok=True) (lines 110-120)
SaveMakedirs ==
    /\ pc = "save_makedirs"
    /\ images_folder' = TRUE
    /\ SaveContinue("save_image")
    /\ UNCHANGED <<runVars, imageFile, mdFile, spinner, raised, shown, messages,
                   outcome, httpStatus, filesBefore>>
    /\ UNCHANGED <<sanVars, tuneVars>>

\* image.save(full_image_path) (lines 123-125); a failing save leaves a
\* truncated file behind
SaveImage ==
    /\ pc = "save_image"
    /\ \/ /\ imageFile' = "complete"
          /\ SaveContinue("save_md_open")
       \/ /\ imageFile' = "partial"
          /\ SaveExcept(<<"OSError", 0>>)
    /\ UNCHANGED <<runVars, images_folder, mdFile, spinner, raised, shown,
                   messages, outcome, httpStatus, filesBefore>>
    /\ UNCHANGED <<sanVars, tuneVars>>

\* open(full_markdown_path, 'w', encoding='utf-8') creates or truncates the
\* file (line 131)
SaveMdOpen ==
    /\ pc = "save_md_open"
    /\ mdFile' = "empty"
    /\ SaveContinue("save_md_write")
    /\ UNCHANGED <<runVars, images_folder, imageFile, spinner, raised, shown,
                   messages, outcome, httpStatus, filesBefore>>
    /\ UNCHANGED <<sanVars, tuneVars>>

\* md_file.write(markdown_content) (line 132): the text stays in the buffer
\* or part of it reaches the file; a failing write leaves either behind
SaveMdWrite ==
    /\ pc = "save_md_write"
    /\ \E f \in {"empty", "partial"} : mdFile' = f
    /\ \/ SaveContinue("save_md_close")
       \/ SaveExcept(<<"OSError", 0>>)
    /\ UNCHANGED <<runVars, images_folder, imageFile, spinner, raised, shown,
                   messages, outcome, httpStatus, filesBefore>>
    /\ UNCHANGED <<sanVars, tuneVars>>

\* leaving the with block closes the file and flushes the buffer (line 132)
SaveMdClose ==
    /\ pc = "save_md_close"
    /\ mdFile' = "complete"
    /\ SaveContinue("save_verify")
    /\ UNCHANGED <<runVars, images_folder, imageFile, spinner, raised, shown,
                   messages, outcome, httpStatus, filesBefore>>
    /\ UNCHANGED <<sanVars, tuneVars>>

\* if os.path.getsize(full_markdown_path) == 0: raise IOError(...);
\* return full_image_path, full_markdown_path (lines 135-138)
SaveVerify ==
    /\ pc = "save_verify"
    /\ IF mdFile = "empty"
          THEN SaveExcept(<<"Markdown file is empty after writing", 0>>)
          ELSE /\ saveRet' = <<"full_image_path", "full_markdown_path">>
               /\ saveExc' = NoValue
               /\ pc' = "saved"
               /\ UNCHANGED console
    /\ UNCHANGED <<runVars, fileVars, spinner, raised, shown, messages, outcome,
                   httpStatus, filesBefore>>
    /\ UNCHANGED <<sanVars, tuneVars>>

\* if saved_image_path and saved_markdown_path: st.success ... st.markdown
\* else: st.error("Failed to save the image and/or generation details")
\* (lines 292-301)
MainSaved ==
    /\ pc = "saved"
    /\ IF saveRet[1] # NoValue /\ saveRet[2] # NoValue
          THEN /\ messages' = messages \cup {"image_saved", "details_saved"}
               /\ shown' = shown \cup {"markdown"}
               /\ outcome' = "ok"
          ELSE /\ messages' = messages \cup {"failed_to_save"}
               /\ outcome' = "export_error"
               /\ UNCHANGED shown
    /\ pc' = "done"
    /\ UNCHANGED <<runVars, fileVars, spinner, raised, httpStatus, saveRet,
                   saveExc, console, filesBefore>>
    /\ UNCHANGED <<sanVars, tuneVars>>

\* the state of one script run before the Generate Image button is handled
FreshRun ==
    /\ pc = "main"
    /\ now = 0
    /\ wake = 0
    /\ ticks = 0
    /\ spinner = 0
    /\ jpc = "none"
    /\ jobResult = NoValue
    /\ jobError = NoValue
    /\ settledAt = -1
    /\ ret = NoValue
    /\ raised = NoValue
    /\ shown = {}
    /\ messages = {}
    /\ outcome = "none"
    /\ httpStatus = 0
    /\ saveRet = NoValue
    /\ saveExc = NoValue
    /\ console = {}
    /\ filesBefore = NoValue

\* Streamlit runs the script again on the next interaction: the page and the
\* locals start afresh, the files under images/ stay
Rerun ==
    /\ pc = "done"
    /\ pc' = "main"
    /\ now' = 0
    /\ wake' = 0
    /\ ticks' = 0
    /\ spinner' = 0
    /\ jpc' = "none"
    /\ jobResult' = NoValue
    /\ jobError' = NoValue
    /\ settledAt' = -1
    /\ ret' = NoValue
    /\ raised' = NoValue
    /\ shown' = {}
    /\ messages' = {}
    /\ outcome' = "none"
    /\ httpStatus' = 0
    /\ saveRet' = NoValue
    /\ saveExc' = NoValue
    /\ console' = {}
    /\ filesBefore' = NoValue
    /\ falKey' \in BOOLEAN
    /\ promptGiven' \in BOOLEAN
    /\ UNCHANGED fileVars
    /\ UNCHANGED <<sanVars, tuneVars>>

(***************************************************************************)
(* Values of the variables a specification does not use.                   *)
(***************************************************************************)
SanIdle == prompt = <<>> /\ safe_prompt = <<>> /\ spc = "off"

TuneIdle ==
    /\ response = <<>>
    /\ tuned_prompt = <<>>
    /\ explanation = NoValue
    /\ suggestions = NoValue
    /\ priorTuned = <<>>
    /\ tpc = "off"
    /\ tuneShown = {}
    /\ tuneError = NoValue
    /\ user_prompt = <<>>
    /\ prompt_accepted = FALSE

GenIdle ==
    /\ FreshRun
    /\ falKey = TRUE
    /\ promptGiven = TRUE
    /\ images_folder = FALSE
    /\ imageFile = "absent"
    /\ mdFile = "absent"

(***************************************************************************)
(* The generate action.                                                    *)
(***************************************************************************)
Init ==
    /\ FreshRun
    /\ falKey \in BOOLEAN
    /\ promptGiven \in BOOLEAN
    /\ images_folder = FALSE
    /\ imageFile = "absent"
    /\ mdFile = "absent"
    /\ SanIdle
    /\ TuneIdle

Next ==
    \/ MainConfigError
    \/ MainEmptyPrompt
    \/ CreateTask
    \/ LoopTick
    \/ LoopExit
    \/ Advance
    \/ SleepWake
    \/ JobStart
    \/ JobSubmitted
    \/ JobFails
    \/ JobReturns
    \/ AwaitTask
    \/ MainDisplay
    \/ MainExcept
    \/ SaveGet
    \/ SaveGetRaises
    \/ SaveDecode
    \/ SaveMakedirs
    \/ SaveImage
    \/ SaveMdOpen
    \/ SaveMdWrite
    \/ SaveMdClose
    \/ SaveVerify
    \/ MainSaved
    \/ Rerun

Spec == Init /\ [][Next]_vars

(***************************************************************************)
(* Filename sanitisation in save_image_and_markdown (lines 113-114).       *)
(* A prompt is a sequence of characters; the characters of the model stand *)
(* for the classes str.isalnum and str.rstrip distinguish.                 *)
(***************************************************************************)
AsciiAlnum == {"a", "7"}
\* characters outside ASCII for which str.isalnum() is true, such as e-acute
UnicodeAlnum == {"U+00E9"}
\* characters str.rstrip() removes
Whitespace == {" ", "\t"}
OtherChars == {"!"}
Chars == AsciiAlnum \cup UnicodeAlnum \cup Whitespace \cup OtherChars \cup {"-", "_"}

\* c.isalnum()
isalnum(c) == c \in AsciiAlnum \cup UnicodeAlnum

\* c.isalnum() or c in (' ', '-', '_')
KeepChar(c) == isalnum(c) \/ c \in {" ", "-", "_"}

\* str.rstrip()
RECURSIVE rstrip(_)
rstrip(s) ==
    IF s # <<>> /\ s[Len(s)] \in Whitespace
       THEN rstrip(SubSeq(s, 1, Len(s) - 1))
       ELSE s

\* s[:n]
Truncate(s, n) == SubSeq(s, 1, IF Len(s) < n THEN Len(s) ELSE n)

\* "".join(c for c in prompt if ...).rstrip() followed by safe_prompt[:50]
SafePrompt(p) == Truncate(rstrip(SelectSeq(p, KeepChar)), TruncLen)

\* the prompts of the model: a run of letters of a length around the
\* truncation limit, or none, followed by a tail of up to MaxSuffix characters
PadLens == {0, TruncLen - 2, TruncLen - 1, TruncLen}
Pad(n) == [i \in 1..n |-> "a"]
Tails == UNION {[1..n -> Chars] : n \in 0..MaxSuffix}
Prompts == {Pad(n) \o t : n \in PadLens, t \in Tails}

\* lines 113-114
Sanitize ==
    /\ spc = "ready"
    /\ safe_prompt' = SafePrompt(prompt)
    /\ spc' = "done"
    /\ UNCHANGED prompt
    /\ UNCHANGED <<genVars, tuneVars>>

InitSanitize ==
    /\ prompt \in Prompts
    /\ safe_prompt = <<>>
    /\ spc = "ready"
    /\ GenIdle
    /\ TuneIdle

NextSanitize == Sanitize

SpecSanitize == InitSanitize /\ [][NextSanitize]_vars

\* C5: the sanitised prompt holds only ASCII letters, digits, space, hyphen and
\* underscore, does not end in whitespace and has at most 50 characters.
C5_SanitizedPrompt ==
    spc = "done" =>
        /\ \A i \in 1..Len(safe_prompt) : safe_prompt[i] \in {"a", "7", " ", "-", "_"}
        /\ safe_prompt = <<>> \/ safe_prompt[Len(safe_prompt)] \notin {" ", "\t"}
        /\ Len(safe_prompt) <= 50

(***************************************************************************)
(* The tune action of main() (lines 201-235) and accept_tuned_prompt.      *)
(* A response is a sequence of tokens: the three literal prefixes, two     *)
(* words, the space and the newline.                                       *)
(***************************************************************************)
Prefixes == {"PROMPT:", "EXPLANATION:", "SUGGESTIONS:"}
Tokens == Prefixes \cup {"x", "y", " ", "\n"}
Blank == {" ", "\n"}
Responses == UNION {[1..n -> Tokens] : n \in 0..MaxResp}

\* str.strip()
RECURSIVE strip(_)
strip(s) ==
    IF s # <<>> /\ s[1] \in Blank THEN strip(Tail(s))
    ELSE IF s # <<>> /\ s[Len(s)] \in Blank THEN strip(SubSeq(s, 1, Len(s) - 1))
    ELSE s

\* str.split('\n')
RECURSIVE split(_)
split(s) ==
    IF \A i \in 1..Len(s) : s[i] # "\n"
       THEN <<s>>
       ELSE LET i == CHOOSE k \in 1..Len(s) :
                        s[k] = "\n" /\ \A j \in 1..(k - 1) : s[j] # "\n"
            IN  <<SubSeq(s, 1, i - 1)>> \o split(SubSeq(s, i + 1, Len(s)))

\* section.startswith(prefix)
startswith(section, prefix) == section # <<>> /\ section[1] = prefix

\* section.replace(prefix, "").strip()
FieldValue(section, prefix) == strip(SelectSeq(section, LAMBDA c : c # prefix))

\* the body of the for loop (lines 209-214)
ParseSection(fields, section) ==
    IF startswith(section, "PROMPT:")
       THEN [fields EXCEPT !.tuned_prompt = FieldValue(section, "PROMPT:")]
    ELSE IF startswith(section, "EXPLANATION:")
       THEN [fields EXCEPT !.explanation = FieldValue(section, "EXPLANATION:")]
    ELSE IF startswith(section, "SUGGESTIONS:")
       THEN [fields EXCEPT !.suggestions = FieldValue(section, "SUGGESTIONS:")]
    ELSE fields

\* a loop that visits the sections from the last to the first
RECURSIVE ParseSectionsBackwards(_, _)
ParseSectionsBackwards(fields, sections) ==
    IF sections = <<>>
       THEN fields
       ELSE ParseSectionsBackwards(ParseSection(fields, sections[Len(sections)]),
                                   SubSeq(sections, 1, Len(sections) - 1))

\* for section in sections (lines 208-214)
RECURSIVE ParseSections(_, _)
ParseSections(fields, sections) ==
    IF sections = <<>>
       THEN fields
       ELSE ParseSections(ParseSection(fields, Head(sections)), Tail(sections))

\* the fields after the loop: the session's tuned prompt and the two locals,
\* which are unbound until the loop assigns them
Parsed(prior, text) ==
    ParseSections([tuned_prompt |-> prior, explanation |-> NoValue,
                   suggestions |-> NoValue],
                  split(text))

\* tune_prompt_with_openai returns response...content.strip(); the handler
\* parses it and writes the widgets; reading an unbound local at line 223 or
\* 225 raises UnboundLocalError into the except clause of line 234
Tune ==
    /\ tpc = "button"
    /\ LET f == Parsed(tuned_prompt, strip(response))
       IN  /\ tuned_prompt' = f.tuned_prompt
           /\ explanation' = f.explanation
           /\ suggestions' = f.suggestions
           /\ IF f.explanation = NoValue
                 THEN /\ tuneShown' = {"tuned_prompt", "error_tuning_prompt"}
                      /\ tuneError' = "UnboundLocalError"
              ELSE IF f.suggestions = NoValue
                 THEN /\ tuneShown' = {"tuned_prompt", "explanation",
                                       "error_tuning_prompt"}
                      /\ tuneError' = "UnboundLocalError"
              ELSE /\ tuneShown' = {"tuned_prompt", "explanation", "suggestions",
                                    "accept_button", "regenerate_button"}
                   /\ tuneError' = NoValue
    /\ tpc' = "tuned"
    /\ UNCHANGED <<response, priorTuned, user_prompt, prompt_accepted>>
    /\ UNCHANGED <<genVars, sanVars>>

\* tune_prompt_with_openai raises (line 204)
TuneCallFails ==
    /\ tpc = "button"
    /\ tuneShown' = {"error_tuning_prompt"}
    /\ tuneError' = "APIError"
    /\ tpc' = "failed"
    /\ UNCHANGED <<response, tuned_prompt, explanation, suggestions, priorTuned,
                   user_prompt, prompt_accepted>>
    /\ UNCHANGED <<genVars, sanVars>>

\* accept_tuned_prompt, the on_click of the Accept button (lines 77-79)
AcceptTunedPrompt ==
    /\ tpc = "tuned"
    /\ "accept_button" \in tuneShown
    /\ user_prompt' = tuned_prompt
    /\ prompt_accepted' = TRUE
    /\ tpc' = "accepted"
    /\ UNCHANGED <<response, tuned_prompt, explanation, suggestions, priorTuned,
                   tuneShown, tuneError>>
    /\ UNCHANGED <<genVars, sanVars>>

\* the session holds no tuned prompt yet, or the one an earlier tune left
InitTune ==
    /\ response \in Responses
    /\ priorTuned \in {<<>>, <<"y">>}
    /\ tuned_prompt = priorTuned
    /\ explanation = NoValue
    /\ suggestions = NoValue
    /\ tpc = "button"
    /\ tuneShown = {}
    /\ tuneError = NoValue
    /\ user_prompt = <<"x">>
    /\ prompt_accepted = FALSE
    /\ GenIdle
    /\ SanIdle

NextTune ==
    \/ Tune
    \/ TuneCallFails
    \/ AcceptTunedPrompt

SpecTune == InitTune /\ [][NextTune]_vars

\* the lines of the response as the handler sees them
Lines == split(strip(response))
HasLine(prefix) == \E i \in 1..Len(Lines) : startswith(Lines[i], prefix)
FirstLine(prefix) ==
    Lines[CHOOSE i \in 1..Len(Lines) :
              /\ startswith(Lines[i], prefix)
              /\ \A j \in 1..(i - 1) : ~startswith(Lines[j], prefix)]
LastLine(prefix) ==
    Lines[CHOOSE i \in 1..Len(Lines) :
              /\ startswith(Lines[i], prefix)
              /\ \A j \in (i + 1)..Len(Lines) : ~startswith(Lines[j], prefix)]

\* the tune action has consumed a response
Tuned == tpc \in {"tuned", "accepted"}

\* C8: a response without an EXPLANATION: line or without a SUGGESTIONS: line
\* is handled without an error, and the missing field is empty.
C8_MissingSectionTolerated ==
    Tuned /\ (~HasLine("EXPLANATION:") \/ ~HasLine("SUGGESTIONS:")) =>
        /\ tuneError = NoValue
        /\ "error_tuning_prompt" \notin tuneShown
        /\ ~HasLine("EXPLANATION:") => explanation = <<>>
        /\ ~HasLine("SUGGESTIONS:") => suggestions = <<>>

\* C9 as stated: each field comes from the first line that starts with its
\* prefix.
C9_FirstLineWins ==
    Tuned =>
        /\ HasLine("PROMPT:") =>
              tuned_prompt = FieldValue(FirstLine("PROMPT:"), "PROMPT:")
        /\ HasLine("EXPLANATION:") =>
              explanation = FieldValue(FirstLine("EXPLANATION:"), "EXPLANATION:")
        /\ HasLine("SUGGESTIONS:") =>
              suggestions = FieldValue(FirstLine("SUGGESTIONS:"), "SUGGESTIONS:")

\* C9 amended: each field comes from the last line that starts with its
\* prefix; without such a line the tuned prompt keeps the session's value and
\* the explanation or the suggestions stay unassigned, whatever the other
\* lines hold.
C9_LastLineWins ==
    Tuned =>
        /\ tuned_prompt = IF HasLine("PROMPT:")
                             THEN FieldValue(LastLine("PROMPT:"), "PROMPT:")
                             ELSE priorTuned
        /\ explanation = IF HasLine("EXPLANATION:")
                            THEN FieldValue(LastLine("EXPLANATION:"), "EXPLANATION:")
                            ELSE NoValue
        /\ suggestions = IF HasLine("SUGGESTIONS:")
                            THEN FieldValue(LastLine("SUGGESTIONS:"), "SUGGESTIONS:")
                            ELSE NoValue

\* two PROMPT: lines with different texts: the later one is in the field
C9_Witness ==
    /\ Tuned
    /\ response = <<"PROMPT:", "x", "\n", "PROMPT:", "y">>
    /\ tuned_prompt = <<"y">>

(***************************************************************************)
(* Properties of the generate action.                                      *)
(***************************************************************************)
\* run_with_spinner has handed control back to main
RunnerReturned == pc \notin {"main", "while", "sleep", "await"} /\ jpc # "none"

\* C1: once the task has settled (succeeded or failed), no step invokes the
\* tick callback again.
C1_NoTickAfterSettled == [][settledAt >= 0 => ~(ticks' > ticks)]_vars

\* the task settled in the middle of a sleep, after at least two ticks, and the
\* runner has left its loop
C1_Witness == pc = "await" /\ settledAt >= 0 /\ settledAt < now /\ ticks >= 2

\* C2: when the runner returns, it hands main exactly the task's outcome: the
\* task's result and no exception if the task succeeded, the task's exception
\* and no result if it failed.
C2_PropagatesOutcome ==
    /\ RunnerReturned => jpc \in {"ok", "failed"}
    /\ pc = "display" => jpc = "ok" /\ raised = NoValue
    /\ RunnerReturned /\ jpc = "ok" => ret = jobResult /\ ret \in Results
    /\ RunnerReturned /\ jpc = "failed" =>
          /\ raised = jobError
          /\ raised \in JobErrors
          /\ ret = NoValue

\* a failed task whose exception has reached the except clause of main
C2_Witness == pc = "except" /\ jpc = "failed" /\ raised = "GetError" /\ ticks >= 2

\* C3: with the task settling D seconds after the runner started, the runner
\* has ticked D \div 3 or D \div 3 + 1 times when it returns.
C3_TickCount ==
    RunnerReturned =>
        ticks \in {settledAt \div SleepSeconds, (settledAt \div SleepSeconds) + 1}

\* the task settled exactly when the second sleep expired and the runner
\* resumed after it: D \div 3 ticks
C3_Witness ==
    /\ pc = "await"
    /\ settledAt = 2 * SleepSeconds
    /\ ticks = 2

\* C10: the runner never returns without a tick, and the task has not run a
\* step before the first tick.
C10_FirstTickBeforeJob ==
    /\ RunnerReturned \/ pc = "await" => ticks >= 1
    /\ ticks = 0 => jpc \in {"none", "scheduled"}

\* the task settled at once, during the first sleep, and the runner returned
\* after one tick
C10_Witness == pc = "await" /\ settledAt = 0 /\ ticks = 1

\* save_image_and_markdown has finished after a response other than 200
DownloadRefused == pc \in {"saved", "done"} /\ httpStatus \notin {0, 200}

\* C4 as stated: after a status other than 200 the export ends with a
\* download-failed exception carrying the status code, and no file is touched.
C4_RaisesDownloadFailed ==
    DownloadRefused =>
        /\ saveExc # NoValue
        /\ saveExc = <<"Failed to download image", httpStatus>>
        /\ <<images_folder, imageFile, mdFile>> = filesBefore

\* C4 amended: after a status other than 200 the export returns (None, None),
\* no exception leaves it, the download error with the status code is printed
\* to the console, and neither file is created or modified.
C4_ReturnsNoneAndLogs ==
    DownloadRefused =>
        /\ saveRet = <<NoValue, NoValue>>
        /\ saveExc = NoValue
        /\ <<"Failed to download image", httpStatus>> \in console
        /\ <<images_folder, imageFile, mdFile>> = filesBefore

\* a 404 while both files of an earlier export exist
C4_Witness ==
    /\ pc = "saved"
    /\ httpStatus = 404
    /\ filesBefore = <<TRUE, "complete", "complete">>

\* C6: the metadata file is absent or complete in every state, so no reader
\* can see it empty or partially written.
C6_MetadataNeverPartial == mdFile \in {"absent", "complete"}

\* C7 as stated: a generate action that ends in a remote-call error or an
\* export error has shown an error message and no part of the result.
C7_NoResultShownOnError ==
    pc = "done" /\ outcome \in {"remote_error", "export_error"} =>
        /\ messages \cap {"error_generating_image", "failed_to_save"} # {}
        /\ shown \cap {"image", "seed", "nsfw"} = {}

\* C7 amended: after a remote-call error the error message is shown, nothing
\* of the result is shown and no file is touched; after an export error the
\* failure message is shown and the image, seed and NSFW flag are on the page
\* already.
C7_ErrorReported ==
    /\ pc = "done" /\ outcome = "remote_error" =>
          /\ "error_generating_image" \in messages
          /\ shown = {}
          /\ filesBefore = NoValue
    /\ pc = "done" /\ outcome = "export_error" =>
          /\ "failed_to_save" \in messages
          /\ {"image", "seed", "nsfw"} \subseteq shown
          /\ "markdown" \notin shown

\* an export that failed after a successful download
C7_Witness == pc = "done" /\ outcome = "export_error" /\ httpStatus = 200

====
